---- MODULE Spec2Model ----
(***************************************************************************)
(* Model of DNAscent's Osiris trainer: train_main (src/src/Osiris_train.cpp)*)
(* and the log-space comparison lnGreaterThan (src/unnamed/part_000).       *)
(*                                                                         *)
(* Strings are sequences of one-character strings, so that to_string,      *)
(* find, substr, split and atoi are modelled by what they do.  Real numbers *)
(* are scaled integers: the quality score is in tenths, events are          *)
(* integers.  A k-mer (State::meta) is identified by its offset in the      *)
(* reference.  size_t arithmetic wraps modulo SizeMod.                      *)
(***************************************************************************)
EXTENDS Integers, Sequences, FiniteSets, TLC

(* ------------------------------ bounds -------------------------------- *)
\* number of read records in the .foh file, at most
MaxReads == 2
\* number of normalised events of a read, at most
MaxEvents == 2
\* widest region of interest (second - first) a read record gives
MaxWidth == 7
\* length of the reference (first line of the .foh file)
RefLen == 16
\* log-probabilities compared by lnGreaterThan range over -MaxLn..MaxLn
MaxLn == 2

(* --------------------------- program constants ------------------------ *)
\* fabs(qualityScore) > 1.0, in tenths
QualityLimit == 10
\* k-mer length: refSeqMapped.length() - 5 modules, substr( i, 5 )
KmerExcess == 5
\* UniformDistribution ud( 50.0, 150.0 )
UniformLower == 50
UniformUpper == 150
\* a complete output row has 9 tab-separated fields
RowFields == 9
\* size_t and unsigned int are unsigned types: values wrap modulo SizeMod (the
\* word size is scaled down to fit TLC's integers; only wrap-around matters)
SizeMod == 1048576
\* std::vector::max_size(): a larger count makes the constructor throw
VectorMaxSize == SizeMod \div 2

(* ------------------------------ strings ------------------------------- *)
DigitChars == <<"0", "1", "2", "3", "4", "5", "6", "7", "8", "9">>

IsDigit(c) == \E d \in 1..10 : DigitChars[d] = c

DigitVal(c) == (CHOOSE d \in 1..10 : DigitChars[d] = c) - 1

RECURSIVE to_string(_)
\* std::to_string of a non-negative integer
to_string(n) ==
    IF n < 10 THEN <<DigitChars[n + 1]>>
    ELSE to_string(n \div 10) \o <<DigitChars[(n % 10) + 1]>>

RECURSIVE AtoiFrom(_, _, _)
AtoiFrom(s, k, acc) ==
    IF k > Len(s) \/ ~IsDigit(s[k]) THEN acc
    ELSE AtoiFrom(s, k + 1, 10 * acc + DigitVal(s[k]))

\* atoi of a string without sign or leading blanks: the leading digits
atoi(s) == AtoiFrom(s, 1, 0)

npos == SizeMod - 1

RECURSIVE FindFrom(_, _, _)
FindFrom(s, c, k) ==
    IF k > Len(s) THEN npos
    ELSE IF s[k] = c THEN k - 1
    ELSE FindFrom(s, c, k + 1)

\* std::string::find( c ): 0-based index of the first c, or npos
find(s, c) == FindFrom(s, c, 1)

Min(a, b) == IF a < b THEN a ELSE b

\* std::string::substr( pos, len ) for pos <= size (0-based pos, len clamped)
substr(s, pos, len) ==
    LET n == Min(len, Len(s) - pos)
    IN  [k \in 1..n |-> s[pos + k]]

\* split( s, delim ): the pieces of s between delimiters
RECURSIVE split(_, _)
split(s, delim) ==
    LET p == find(s, delim)
    IN  IF p = npos THEN <<s>>
        ELSE <<substr(s, 0, p)>> \o split(substr(s, p + 1, Len(s)), delim)

(* --------------------------- size_t arithmetic ------------------------ *)
\* conversion of an int to an unsigned type
ToUnsigned(x) == x % SizeMod

\* a - b computed in size_t
USub(a, b) == ToUnsigned(a - b)

\* refSeqMapped.length(): reference.substr( first, second - first ), the
\* int width converted to size_t and clamped to the end of the reference
RefSeqMappedLength(first, second) ==
    Min(ToUnsigned(second - first), RefLen - first)

\* refSeqMapped.length() - 5: the module count every loop uses
ModuleCount(len) == USub(len, KmerExcess)

\* refSeqMapped.length() - 6: bound of the external loop, last-module index
LastModule(len) == USub(len, KmerExcess + 1)

(* ------------------------------- states ------------------------------- *)
\* State( distribution, name, meta, tied, weight ); dist is the bound
\* distribution: "sd" silent, "ud" uniform, "nd" the position's normal
MkState(dist, name, meta) == [dist |-> dist, name |-> name, meta |-> meta]

\* State( NULL, "", "", "", 1.0 ), the filler of the states vector
DummyState == MkState("NULL", <<>>, -1)

SfxSS == <<"_", "S", "S">>
SfxD  == <<"_", "D">>
SfxI  == <<"_", "I">>
SfxM1 == <<"_", "M", "1">>
SfxM2 == <<"_", "M", "2">>
SfxSE == <<"_", "S", "E">>

\* the model's distinguished start and end states (both non-emitting)
StartState == MkState("sd", <<"S", "T", "A", "R", "T">>, -1)
EndState   == MkState("sd", <<"E", "N", "D">>, -1)

\* states[ 0..5 ][ i ] as assigned for module i of a read starting at first
ModuleStates(first, i) ==
    LET loc == to_string(i + first)
        fiveMer == i + first
    IN  [j \in 0..5 |->
            CASE j = 0 -> MkState("sd", loc \o SfxSS, fiveMer)
              [] j = 1 -> MkState("sd", loc \o SfxD,  fiveMer)
              [] j = 2 -> MkState("ud", loc \o SfxI,  fiveMer)
              [] j = 3 -> MkState("nd", loc \o SfxM1, fiveMer)
              [] j = 4 -> MkState("nd", loc \o SfxM2, fiveMer)
              [] j = 5 -> MkState("sd", loc \o SfxSE, fiveMer)]

(* ---------------------------- builder calls --------------------------- *)
AddStateCall(s) == [op |-> "add_state", state |-> s]
AddTransitionCall(from, to, w) ==
    [op |-> "add_transition", from |-> from, to |-> to, w |-> w]
FinaliseCall == [op |-> "finalise"]
ViterbiCall == [op |-> "viterbi"]

\* hmm.add_state for the six states of module i
AddStates(st, i) == [j \in 1..6 |-> AddStateCall(st[j - 1][i])]

FromSS_swapped(st, i) ==
    << AddTransitionCall(st[3][i], st[0][i], "internalSS2M1"),
       AddTransitionCall(st[4][i], st[0][i], "internalSS2M2") >>

FromSS(st, i) ==
    << AddTransitionCall(st[0][i], st[3][i], "internalSS2M1"),
       AddTransitionCall(st[0][i], st[4][i], "internalSS2M2") >>

FromD(st, i) == << AddTransitionCall(st[1][i], st[2][i], "internalD2I") >>

FromI(st, i) ==
    << AddTransitionCall(st[2][i], st[2][i], "internalI2I"),
       AddTransitionCall(st[2][i], st[0][i], "internalI2SS") >>

FromM1(st, i) ==
    << AddTransitionCall(st[3][i], st[3][i], "internalM12M1"),
       AddTransitionCall(st[3][i], st[5][i], "internalM12SE") >>

FromM2(st, i) ==
    << AddTransitionCall(st[4][i], st[4][i], "internalM22M2"),
       AddTransitionCall(st[4][i], st[5][i], "internalM22SE") >>

FromSE_toSS(st, i) == << AddTransitionCall(st[5][i], st[0][i], "internalSE2I") >>

FromSE(st, i) == << AddTransitionCall(st[5][i], st[2][i], "internalSE2I") >>

\* one iteration of the module loop: six add_state, then the internal
\* transitions in source order
ModuleCalls(st, i) ==
    AddStates(st, i) \o FromSS(st, i) \o FromD(st, i) \o FromI(st, i)
        \o FromM1(st, i) \o FromM2(st, i) \o FromSE(st, i)

ExternalD2D_reversed(st, i) == AddTransitionCall(st[1][i + 1], st[1][i], "externalD2D")

ExternalD2D(st, i) == AddTransitionCall(st[1][i], st[1][i + 1], "externalD2D")

ExternalSE2SS_reversed(st, i) == AddTransitionCall(st[0][i + 1], st[5][i], "externalSE2SS")

ExternalSE2SS(st, i) == AddTransitionCall(st[5][i], st[0][i + 1], "externalSE2SS")

\* one iteration of the external loop
ExternalCalls(st, i) ==
    << ExternalD2D(st, i),
       AddTransitionCall(st[1][i], st[0][i + 1], "externalD2SS"),
       AddTransitionCall(st[2][i], st[0][i + 1], "externalI2SS"),
       ExternalSE2SS(st, i),
       AddTransitionCall(st[5][i], st[1][i + 1], "externalSE2D") >>

StartCalls(st) ==
    << AddTransitionCall(StartState, st[0][0], "0.5"),
       AddTransitionCall(StartState, st[1][0], "0.5") >>

EndCalls(st, last) ==
    << AddTransitionCall(st[1][last], EndState, "externalD2D+externalD2SS"),
       AddTransitionCall(st[2][last], EndState, "externalI2SS"),
       AddTransitionCall(st[5][last], EndState, "externalSE2SS+externalSE2D") >>

\* start transitions, end transitions, hmm.finalise(), in source order
ClosingCalls(st, last) == StartCalls(st) \o EndCalls(st, last) \o <<FinaliseCall>>

(* ------------------------------ the model ----------------------------- *)
\* HiddenMarkovModel as the builder leaves it: registered states,
\* transitions (weights left symbolic) and whether finalise() ran
EmptyHmm == [states |-> {}, transitions |-> {}, finalised |-> FALSE]

ApplyCall(h, c) ==
    CASE c.op = "add_state" -> [h EXCEPT !.states = @ \cup {c.state}]
      [] c.op = "add_transition" ->
            [h EXCEPT !.transitions = @ \cup {<<c.from, c.to>>}]
      [] c.op = "finalise" -> [h EXCEPT !.finalised = TRUE]
      [] OTHER -> h

RECURSIVE ApplyCalls(_, _)
ApplyCalls(h, cs) ==
    IF cs = <<>> THEN h ELSE ApplyCalls(ApplyCall(h, Head(cs)), Tail(cs))

(* ------------------------------ decoding ------------------------------ *)
\* a state consumes an observation unless it is bound to the silent
\* distribution
Emitting(s) == s.dist # "sd"

\* density( x ) > 0: uniformPDF is 0 outside [lb, ub]; normalPDF underflows
\* to 0 for an observation far from every pore-model mean
HasDensity(s, x) ==
    IF s.dist = "ud" THEN x >= UniformLower /\ x <= UniformUpper
    ELSE x <= 2 * UniformUpper

Succ(h, s) == {e[2] : e \in {t \in h.transitions : t[1] = s}}

RECURSIVE PathsFrom(_, _, _, _, _)
\* the state sequences leading from s (excluded) to end (excluded) that
\* explain obs[k..] with non-zero probability, of at most fuel states
PathsFrom(h, s, obs, k, fuel) ==
    IF fuel = 0 THEN {}
    ELSE UNION {
        IF n = EndState
            THEN (IF k > Len(obs) THEN {<<>>} ELSE {})
        ELSE IF Emitting(n)
            THEN (IF k <= Len(obs) /\ HasDensity(n, obs[k])
                     THEN {<<n>> \o p : p \in PathsFrom(h, n, obs, k + 1, fuel - 1)}
                     ELSE {})
        ELSE {<<n>> \o p : p \in PathsFrom(h, n, obs, k, fuel - 1)}
        : n \in Succ(h, s) }

\* hmm.viterbi( observations ): the candidates for the most likely path; the
\* weights, not modelled, pick one.  Empty when no path reaches end.
ViterbiPaths(h, obs) ==
    PathsFrom(h, StartState, obs, 1, (Len(obs) + 1) * (Cardinality(h.states) + 2))

(* --------------------------- pooling the events ------------------------ *)
IsEmittingName_onlyM(name) == substr(name, (find(name, "_") + 1) % SizeMod, 1) = <<"M">>

\* the character after the first '_' of the name is "M" or "I"
IsEmittingName(name) ==
    LET ch == substr(name, (find(name, "_") + 1) % SizeMod, 1)
    IN  ch = <<"M">> \/ ch = <<"I">>

\* filter state path to only emitting states
EmittingStatePath(path) == SelectSeq(path, LAMBDA s : IsEmittingName(s.name))

\* unsigned int posOnReference = atoi( split( name, '_' )[ 0 ] )
PosOnReference(s) == ToUnsigned(atoi(split(s.name, "_")[1]))

InBounds_inclusive(pos, args) ==
    pos >= ToUnsigned(args.boundLower) /\ pos <= ToUnsigned(args.boundUpper)

\* posOnReference >= boundLower and posOnReference < boundUpper: the int
\* bounds are converted to unsigned for the comparison
InBounds(pos, args) ==
    pos >= ToUnsigned(args.boundLower) /\ pos < ToUnsigned(args.boundUpper)

\* eventPileup[ pos ].push_back( x ): operator[] creates a missing key
PushBack(pool, pos, x) ==
    [p \in DOMAIN pool \cup {pos} |->
        IF p = pos
            THEN (IF p \in DOMAIN pool THEN Append(pool[p], x) ELSE <<x>>)
            ELSE pool[p]]

RECURSIVE PileupFrom(_, _, _, _, _)
PileupFrom(pool, emitting, events, args, k) ==
    IF k > Len(events) THEN pool
    ELSE LET pos == PosOnReference(emitting[k])
         IN  PileupFrom(IF InBounds(pos, args)
                            THEN PushBack(pool, pos, events[k]) ELSE pool,
                        emitting, events, args, k + 1)

\* the alignment loop over the normalised events
Pileup(pool, path, events, args) ==
    PileupFrom(pool, EmittingStatePath(path), events, args, 1)

(* ------------------------------- fitting ------------------------------ *)
HeaderRow ==
    [pos |-> -1,
     fields |-> <<"5mer", "ONT_mean", "ONT_stdv", "pi_1", "mean_1", "stdv_2",
                  "pi_2", "mean_1", "stdv_2">>]

\* the row of a fitted position: k-mer, ONT mean and stdv, six fit parameters
WriteRow(out, pos) ==
    Append(out, [pos |-> pos,
                 fields |-> <<"fiveMer", "mu1", "stdv1", "fit0", "fit1", "fit2",
                              "fit3", "fit4", "fit5">>])

CatchNegativeLog_partial(out, pos) ==
    Append(out, [pos |-> pos, fields |-> <<"fiveMer", "mu1", "stdv1">>])

\* catch ( NegativeLog ): a message on stdout, nothing on outFile, continue
CatchNegativeLog(out, pos) == out

EndIter == -1

\* ++iter over the ordered map: the least key above pos, or cend()
NextKey(pool, pos) ==
    IF \E p \in DOMAIN pool : p > pos
        THEN CHOOSE p \in DOMAIN pool :
                 p > pos /\ \A r \in DOMAIN pool : r > pos => p <= r
        ELSE EndIter

(* ---------------------------- quality filter --------------------------- *)
Abs(x) == IF x < 0 THEN -x ELSE x

Discard_ge(q) == Abs(q) >= QualityLimit

\* fabs( eventData.qualityScore ) > 1.0
Discard(q) == Abs(q) > QualityLimit

(* ------------------------------- inputs -------------------------------- *)
\* region-of-interest lines: at the start of the reference, the widths from
\* below the k-mer length up to MaxWidth; near its end, one that reaches past
\* the end (substr clamps it) and one whose upper bound is below the lower
ROIs ==
    {<<0, w>> : w \in (KmerExcess - 1)..MaxWidth}
        \cup {<<RefLen - (KmerExcess + 1), RefLen + 1>>,
              <<RefLen - (KmerExcess + 1), 0>>}

\* quality scores in tenths: beyond the limit on either side, and on it
Qualities == {-(QualityLimit + 1), QualityLimit, QualityLimit + 1}

\* the k-th normalised event of a read is a value every distribution gives
\* density to (distinct per index); the last one may instead lie far outside
\* all of them
GoodEvent(k) == 2 * UniformLower + k
FarEvent == 10 * UniformUpper

EventSeqs ==
    UNION {{[k \in 1..n |-> GoodEvent(k)],
            [k \in 1..n |-> IF k = n THEN FarEvent ELSE GoodEvent(k)]}
           : n \in 0..MaxEvents}

\* -b lower upper: the whole reference, a range inside it, and a negative
\* lower bound
BoundsArgs ==
    {[boundLower |-> 0, boundUpper |-> RefLen],
     [boundLower |-> 1, boundUpper |-> RefLen - (KmerExcess + 1)],
     [boundLower |-> -1, boundUpper |-> RefLen]}

\* a double holding a log-probability: NaN, or a number
NaN == [nan |-> TRUE, v |-> 0]
Ln(k) == [nan |-> FALSE, v |-> k]
LnVals == {NaN} \cup {Ln(k) : k \in -MaxLn..MaxLn}

(* ------------------------ lnGreaterThan (log space) -------------------- *)
isnan(x) == x.nan

lnGreaterThan_noNegation(ln_x, ln_y) ==
    IF isnan(ln_x) \/ isnan(ln_y)
        THEN (IF isnan(ln_x) \/ isnan(ln_y) THEN FALSE
              ELSE IF (isnan(ln_x) = FALSE) \/ isnan(ln_y) THEN TRUE
              ELSE FALSE)
        ELSE (IF ln_x.v > ln_y.v THEN TRUE ELSE FALSE)

\* evaluates whether ln_x is greater than ln_y; NaN stands for probability 0
lnGreaterThan(ln_x, ln_y) ==
    IF isnan(ln_x) \/ isnan(ln_y)
        THEN (IF isnan(ln_x) \/ (isnan(ln_y) = FALSE) THEN FALSE
              ELSE IF (isnan(ln_x) = FALSE) \/ isnan(ln_y) THEN TRUE
              ELSE FALSE)
        ELSE (IF ln_x.v > ln_y.v THEN TRUE ELSE FALSE)

(* ------------------------------- state --------------------------------- *)
VARIABLES
    pc,             \* position in train_main
    trainArgs,      \* boundLower, boundUpper
    readsDone,      \* read records taken from the .foh file so far
    currentRead,    \* ROIbounds of the read being processed
    eventData,      \* qualityScore and normalisedEvents of that read
    refSeqMapped,   \* refSeqMapped.length()
    states,         \* states[ j ][ i ]
    i,              \* loop index of the module and external loops
    hmm,            \* the read's HiddenMarkovModel
    calls,          \* history: the calls made on hmm, in order
    statePath,      \* viterbiData.second
    eventPileup,    \* position -> events aligned to it
    iter,           \* key the fitting loop is at, or EndIter
    fitted,         \* history: position -> outcome of gaussianMixtureEM
    outFile,        \* rows written to the output file
    error,          \* exception or fault that ended train_main, if any
    lnArgs,         \* operands handed to lnGreaterThan
    lnOut           \* its results, once compared

trainVars ==
    <<pc, trainArgs, readsDone, currentRead, eventData, refSeqMapped, states, i,
      hmm, calls, statePath, eventPileup, iter, fitted, outFile, error>>
lnVars == <<lnArgs, lnOut>>
vars == <<trainVars, lnVars>>

NoRead == [ROIbounds |-> <<0, 0>>]
NoEventData == [qualityScore |-> 0, normalisedEvents |-> <<>>]
NoStates == [j \in 0..5 |-> <<>>]
EmptyPool == [p \in {} |-> <<>>]

\* the locals of one iteration of the read loop, before the read is taken
FreshLocals ==
    /\ refSeqMapped' = 0
    /\ states' = NoStates
    /\ i' = 0
    /\ hmm' = EmptyHmm
    /\ calls' = <<>>
    /\ statePath' = <<>>

\* train_main up to the read loop: arguments parsed, header row written
TrainInit ==
    /\ pc = "readLoop"
    /\ trainArgs \in BoundsArgs
    /\ readsDone = 0
    /\ currentRead = NoRead
    /\ eventData = NoEventData
    /\ refSeqMapped = 0
    /\ states = NoStates
    /\ i = 0
    /\ hmm = EmptyHmm
    /\ calls = <<>>
    /\ statePath = <<>>
    /\ eventPileup = EmptyPool
    /\ iter = EndIter
    /\ fitted = EmptyPool
    /\ outFile = <<HeaderRow>>
    /\ error = "none"

Init == TrainInit /\ lnArgs = <<NaN, NaN, NaN>> /\ lnOut = <<>>

(* ------------------------------ read loop ------------------------------ *)
\* one getline triple, normaliseEvents, the quality filter, and for a read
\* that passes it the locals up to the first loop; a discarded read leaves
\* only its quality score behind (continue ends the iteration)
ReadNext ==
    /\ pc = "readLoop"
    /\ readsDone < MaxReads
    /\ \E roi \in ROIs, q \in Qualities, ev \in EventSeqs :
        /\ readsDone' = readsDone + 1
        /\ hmm' = EmptyHmm
        /\ calls' = <<>>
        /\ statePath' = <<>>
        /\ i' = 0
        /\ currentRead' = IF Discard(q) THEN NoRead ELSE [ROIbounds |-> roi]
        /\ eventData' = [qualityScore |-> q,
                         normalisedEvents |-> IF Discard(q) THEN <<>> ELSE ev]
        /\ IF Discard(q)
             THEN /\ pc' = "readLoop"
                  /\ refSeqMapped' = 0
                  /\ states' = NoStates
                  /\ error' = error
             ELSE LET len == RefSeqMappedLength(roi[1], roi[2])
                      n == ModuleCount(len)
                  IN  /\ refSeqMapped' = len
                      /\ IF n > VectorMaxSize
                           THEN /\ pc' = "aborted"
                                /\ error' = "length_error"
                                /\ states' = NoStates
                           ELSE /\ pc' = IF 0 < n THEN "modules" ELSE "external"
                                /\ error' = error
                                /\ states' = [j \in 0..5 |-> [k \in 1..n |-> DummyState]]
    /\ UNCHANGED <<trainArgs, eventPileup, iter, fitted, outFile, lnVars>>

\* states[ j ][ i ] = ... for the six states of module i (0-based i)
AssignModule(st, first, idx) ==
    [j \in 0..5 |-> [st[j] EXCEPT ![idx + 1] = ModuleStates(first, idx)[j]]]

\* the vector element states[ j ][ idx ]
At(st) == [j \in 0..5 |-> [k \in 0..(Len(st[j]) - 1) |-> st[j][k + 1]]]

\* one iteration of the loop that adds states and internal transitions
AddModule ==
    /\ pc = "modules"
    /\ i < ModuleCount(refSeqMapped)
    /\ LET st == AssignModule(states, currentRead.ROIbounds[1], i)
           cs == ModuleCalls(At(st), i)
       IN  /\ states' = st
           /\ calls' = calls \o cs
           /\ hmm' = ApplyCalls(hmm, cs)
    /\ IF i + 1 < ModuleCount(refSeqMapped)
         THEN i' = i + 1 /\ pc' = "modules"
         ELSE i' = 0 /\ pc' = "external"
    /\ UNCHANGED <<trainArgs, readsDone, currentRead, eventData, refSeqMapped,
                   statePath, eventPileup, iter, fitted, outFile, error, lnVars>>

\* one iteration of the external loop, all indices inside the vectors
ExternalTransitions ==
    /\ pc = "external"
    /\ i < LastModule(refSeqMapped)
    /\ i + 1 < ModuleCount(refSeqMapped)
    /\ LET cs == ExternalCalls(At(states), i)
       IN  /\ calls' = calls \o cs
           /\ hmm' = ApplyCalls(hmm, cs)
    /\ i' = i + 1
    /\ UNCHANGED <<pc, trainArgs, readsDone, currentRead, eventData, refSeqMapped,
                   states, statePath, eventPileup, iter, fitted, outFile, error,
                   lnVars>>

\* what add_transition is handed when states[ j ][ i ] lies past the end
IndeterminateState == MkState("indeterminate", <<>>, -1)

\* an iteration of the external loop that indexes past the end of the state
\* vectors (undefined behaviour): the process faults on the access, or the
\* call goes through on indeterminate states before it faults
ExternalOutOfRange ==
    /\ pc = "external"
    /\ i < LastModule(refSeqMapped)
    /\ ~(i + 1 < ModuleCount(refSeqMapped))
    /\ \E outcome \in {"fault", "call"} :
        LET cs == IF outcome = "call"
                    THEN <<AddTransitionCall(IndeterminateState, IndeterminateState,
                                             "externalD2D")>>
                    ELSE <<>>
        IN  /\ calls' = calls \o cs
            /\ hmm' = ApplyCalls(hmm, cs)
    /\ pc' = "aborted"
    /\ error' = "out_of_range"
    /\ UNCHANGED <<trainArgs, readsDone, currentRead, eventData, refSeqMapped,
                   states, i, statePath, eventPileup, iter, fitted, outFile, lnVars>>

\* the external loop is over: start transitions, end transitions, finalise
CloseGraph ==
    /\ pc = "external"
    /\ ~(i < LastModule(refSeqMapped))
    /\ LET cs == ClosingCalls(At(states), LastModule(refSeqMapped))
       IN  /\ calls' = calls \o cs
           /\ hmm' = ApplyCalls(hmm, cs)
    /\ pc' = "viterbi"
    /\ UNCHANGED <<trainArgs, readsDone, currentRead, eventData, refSeqMapped,
                   states, i, statePath, eventPileup, iter, fitted, outFile, error,
                   lnVars>>

\* hmm.viterbi returns a state path
Viterbi ==
    /\ pc = "viterbi"
    /\ \E p \in ViterbiPaths(hmm, eventData.normalisedEvents) : statePath' = p
    /\ calls' = Append(calls, ViterbiCall)
    /\ pc' = "pool"
    /\ UNCHANGED <<trainArgs, readsDone, currentRead, eventData, refSeqMapped,
                   states, i, hmm, eventPileup, iter, fitted, outFile, error, lnVars>>

\* hmm.viterbi finds no path to end: nothing in train_main catches it
ViterbiUnalignable ==
    /\ pc = "viterbi"
    /\ ViterbiPaths(hmm, eventData.normalisedEvents) = {}
    /\ calls' = Append(calls, ViterbiCall)
    /\ pc' = "aborted"
    /\ error' = "Unalignable"
    /\ UNCHANGED <<trainArgs, readsDone, currentRead, eventData, refSeqMapped,
                   states, i, hmm, statePath, eventPileup, iter, fitted, outFile,
                   lnVars>>

\* the emitting states are filtered out of the path and the events pooled;
\* the iteration ends and its locals go out of scope
Pool ==
    /\ pc = "pool"
    /\ eventPileup' = Pileup(eventPileup, statePath, eventData.normalisedEvents,
                             trainArgs)
    /\ pc' = "readLoop"
    /\ currentRead' = NoRead
    /\ eventData' = NoEventData
    /\ FreshLocals
    /\ UNCHANGED <<trainArgs, readsDone, iter, fitted, outFile, error, lnVars>>

\* getline fails: the file is read, the fitting loop starts at cbegin()
EndOfFile ==
    /\ pc = "readLoop"
    /\ pc' = "fit"
    /\ iter' = NextKey(eventPileup, EndIter)
    /\ currentRead' = NoRead
    /\ eventData' = NoEventData
    /\ FreshLocals
    /\ UNCHANGED <<trainArgs, readsDone, eventPileup, fitted, outFile, error, lnVars>>

(* ----------------------------- fitting loop ---------------------------- *)
\* gaussianMixtureEM returns six parameters or throws NegativeLog
FitOutcomes == {"fit", "NegativeLog"}

FitPosition ==
    /\ pc = "fit"
    /\ iter # EndIter
    /\ \E outcome \in FitOutcomes :
        /\ outFile' = IF outcome = "fit" THEN WriteRow(outFile, iter)
                      ELSE CatchNegativeLog(outFile, iter)
        /\ fitted' = [p \in DOMAIN fitted \cup {iter} |->
                         IF p = iter THEN outcome ELSE fitted[p]]
    /\ iter' = NextKey(eventPileup, iter)
    /\ UNCHANGED <<pc, trainArgs, readsDone, currentRead, eventData, refSeqMapped,
                   states, i, hmm, calls, statePath, eventPileup, error, lnVars>>

\* iter == cend(): outFile.close(), return 0
CloseOutput ==
    /\ pc = "fit"
    /\ iter = EndIter
    /\ pc' = "done"
    /\ UNCHANGED <<trainArgs, readsDone, currentRead, eventData, refSeqMapped,
                   states, i, hmm, calls, statePath, eventPileup, iter, fitted,
                   outFile, error, lnVars>>

Next ==
    \/ ReadNext
    \/ AddModule
    \/ ExternalTransitions
    \/ ExternalOutOfRange
    \/ CloseGraph
    \/ Viterbi
    \/ ViterbiUnalignable
    \/ Pool
    \/ EndOfFile
    \/ FitPosition
    \/ CloseOutput

Spec == Init /\ [][Next]_vars

\* graph construction alone: a read is taken and its state graph built up
\* to finalise
NextBuild ==
    \/ ReadNext
    \/ AddModule
    \/ ExternalTransitions
    \/ ExternalOutOfRange
    \/ CloseGraph

SpecBuild == Init /\ [][NextBuild]_vars

(* ------------------------ the finished state graph --------------------- *)
Nodes(h) == h.states \cup {StartState, EndState}

\* number of modules of the graph: the distinct reference positions
NumModules(h) == Cardinality({s.meta : s \in h.states})

FirstPos(h) == CHOOSE p \in {s.meta : s \in h.states} :
                   \A s \in h.states : p <= s.meta

\* module index of a state: start lies before module 0, end after the last
ModuleOf(h, s) ==
    IF s = StartState THEN -1
    ELSE IF s = EndState THEN NumModules(h)
    ELSE s.meta - FirstPos(h)

\* role of a module state: its name after the first '_'
RoleOf(s) == substr(s.name, find(s.name, "_") + 1, Len(s.name))

RECURSIVE Closure(_, _)
Closure(h, set) ==
    LET more == set \cup UNION {Succ(h, s) : s \in set}
    IN  IF more = set THEN set ELSE Closure(h, more)

\* the states reachable from s by one or more transitions
ReachPlus(h, s) == Closure(h, Succ(h, s))

\* the graph construction of the current read is complete
GraphBuilt == hmm.finalised

(* C4: every transition of the finished graph goes from start to module 0,
   from the last module to end, or from a state of module i to a state of
   module i or i+1; hence no state reachable from a state lies at an
   earlier reference position. *)
C4_LeftToRight ==
    GraphBuilt =>
        /\ \A e \in hmm.transitions :
              \/ e[1] = StartState /\ e[2] \in hmm.states /\ ModuleOf(hmm, e[2]) = 0
              \/ e[2] = EndState /\ e[1] \in hmm.states
                    /\ ModuleOf(hmm, e[1]) = NumModules(hmm) - 1
              \/ /\ e[1] \in hmm.states
                 /\ e[2] \in hmm.states
                 /\ ModuleOf(hmm, e[2]) \in {ModuleOf(hmm, e[1]), ModuleOf(hmm, e[1]) + 1}
        /\ \A s \in hmm.states : \A t \in ReachPlus(hmm, s) \cap hmm.states :
              t.meta >= s.meta

\* a finished graph of two or more modules, with a transition between modules
C4_Witness ==
    /\ GraphBuilt
    /\ NumModules(hmm) >= 2
    /\ \E e \in hmm.transitions :
          /\ e[1] \in hmm.states
          /\ e[2] \in hmm.states
          /\ ModuleOf(hmm, e[2]) = ModuleOf(hmm, e[1]) + 1

\* s lies on a directed cycle of two or more transitions
OnLongCycle(h, s) == \E t \in ReachPlus(h, s) : t # s /\ s \in ReachPlus(h, t)

(* C5 as stated: the finished graph has no directed cycle other than
   single-state self-loops. *)
C5_NoCycleButSelfLoops ==
    GraphBuilt => \A s \in Nodes(hmm) : ~OnLongCycle(hmm, s)

(* C5 amended: besides the self-loops the finished graph has cycles, but
   each one stays inside a single module and runs through its SS, M1/M2, SE
   and I states (SS -> M -> SE -> I -> SS); start, end and the D states lie
   on no cycle, and no cycle joins states of two modules. *)
C5_CyclesWithinModule ==
    GraphBuilt =>
        \A s \in Nodes(hmm) : \A t \in ReachPlus(hmm, s) :
            (t # s /\ s \in ReachPlus(hmm, t)) =>
                /\ s \in hmm.states
                /\ t \in hmm.states
                /\ s.meta = t.meta
                /\ RoleOf(s) \in {<<"S", "S">>, <<"M", "1">>, <<"M", "2">>,
                                   <<"S", "E">>, <<"I">>}

\* a finished graph of two modules in which SS of the first module lies on a
\* cycle through M1, SE and I
C5_Witness ==
    /\ GraphBuilt
    /\ NumModules(hmm) >= 2
    /\ \E s \in hmm.states :
          /\ RoleOf(s) = <<"S", "S">>
          /\ OnLongCycle(hmm, s)
          /\ \E m \in Succ(hmm, s) : RoleOf(m) = <<"M", "1">> /\ s \in ReachPlus(hmm, m)

(* C9: in the finished graph every state other than start and end has an
   outgoing transition, and end is reachable from every state. *)
C9_NoDeadEnds ==
    GraphBuilt =>
        /\ \A s \in hmm.states : Succ(hmm, s) # {}
        /\ \A s \in hmm.states \cup {StartState} : EndState \in ReachPlus(hmm, s)

\* a finished graph of two or more modules with all six states per module
C9_Witness ==
    /\ GraphBuilt
    /\ NumModules(hmm) >= 2
    /\ Cardinality(hmm.states) = 6 * NumModules(hmm)

\* the transitions between non-emitting states
SilentEdges(h) == {e \in h.transitions : ~Emitting(e[1]) /\ ~Emitting(e[2])}

RECURSIVE SilentChain(_, _, _)
\* length of the longest chain of silent transitions from s, up to fuel
SilentChain(h, s, fuel) ==
    LET next == {e[2] : e \in {t \in SilentEdges(h) : t[1] = s}}
    IN  IF fuel = 0 \/ next = {} THEN 0
        ELSE LET lens == {1 + SilentChain(h, n, fuel - 1) : n \in next}
             IN  CHOOSE m \in lens : \A l \in lens : l <= m

(* C10: in the finished graph every transition between non-emitting states
   (start, end, SS, D, SE) leads to a strictly later module or to end, so the
   silent sub-graph is acyclic and a chain of silent transitions has at most
   2N+1 steps for N modules. *)
C10_SilentAcyclic ==
    GraphBuilt =>
        /\ \A e \in SilentEdges(hmm) : ModuleOf(hmm, e[2]) > ModuleOf(hmm, e[1])
        /\ \A s \in Nodes(hmm) :
              ~Emitting(s) =>
                  SilentChain(hmm, s, 2 * NumModules(hmm) + 2)
                      <= 2 * NumModules(hmm) + 1

\* a finished graph with a silent chain start -> D -> D -> end
C10_Witness ==
    /\ GraphBuilt
    /\ NumModules(hmm) >= 2
    /\ SilentChain(hmm, StartState, 2 * NumModules(hmm) + 2) = NumModules(hmm) + 1

(* ------------------------------ read loop ------------------------------ *)
(* C1: when Viterbi decoding of a read fails with Unalignable, train_main
   skips the read and goes on: the failure does not end train_main, so the
   remaining reads and the fitting phase are still reached. *)
C1_UnalignableReadSkipped == error = "Unalignable" => pc # "aborted"

(* C3: a read whose quality score has magnitude above 1.0 is discarded
   before any graph is built: taking it leaves train_main at the head of the
   read loop with no add_state, add_transition, finalise or viterbi call made
   and the event pool unchanged; a read of magnitude exactly 1.0 is not
   discarded. *)
C3_QualityFilter ==
    [][ /\ (Abs(eventData'.qualityScore) > QualityLimit =>
                calls' = <<>> /\ hmm' = EmptyHmm /\ pc' = "readLoop")
        /\ (readsDone' = readsDone + 1 =>
              /\ (Abs(eventData'.qualityScore) > QualityLimit =>
                    /\ pc' = "readLoop"
                    /\ eventPileup' = eventPileup
                    /\ statePath' = <<>>)
              /\ (Abs(eventData'.qualityScore) = QualityLimit => pc' # "readLoop"))
      ]_vars

\* a read beyond the limit was discarded after earlier reads filled the pool
C3_Witness ==
    /\ pc = "readLoop"
    /\ Abs(eventData.qualityScore) > QualityLimit
    /\ eventPileup # EmptyPool

\* calls[k] registers state s
Registers(c, s) == c.op = "add_state" /\ c.state = s

RegisteredBefore(k, s) ==
    \/ s \in {StartState, EndState}
    \/ \E m \in 1..(k - 1) : Registers(calls[m], s)

(* C8: on every read's model each add_transition comes after both of its
   endpoints were registered (or are start/end), finalise is called once and
   after every add_state and add_transition, and viterbi only after
   finalise. *)
C8_BuilderProtocol ==
    \A k \in 1..Len(calls) :
        /\ calls[k].op = "add_transition" =>
              RegisteredBefore(k, calls[k].from) /\ RegisteredBefore(k, calls[k].to)
        /\ calls[k].op \in {"add_state", "add_transition", "finalise"} =>
              \A m \in 1..(k - 1) : calls[m].op # "finalise"
        /\ calls[k].op = "viterbi" =>
              \E m \in 1..(k - 1) : calls[m].op = "finalise"

(* ------------------------- unsigned module count ------------------------ *)
\* max(0, L - 5): the number of modules a mapped reference of L bases has
ModulesWanted(len) == IF len > KmerExcess THEN len - KmerExcess ELSE 0

\* the states held in the modules created for the read
CreatedStates == {states[j][k] : j \in 0..5, k \in 1..Len(states[0])}

\* state s, an endpoint of a transition, was taken from a created module
FromCreatedModule(s) == s \in {StartState, EndState} \cup CreatedStates

(* C11: for every read that passes the quality filter, whatever the length L
   of its mapped reference, the unsigned values L - 5 and L - 6 do not wrap
   around: max(0, L - 5) modules are created, the last-module index is L - 6
   when there is a module, no vector is asked for or indexed beyond the
   modules created, and every transition joins states of created modules. *)
C11_NoWrapAround ==
    /\ error \notin {"length_error", "out_of_range"}
    /\ currentRead # NoRead =>
          /\ ModuleCount(refSeqMapped) = ModulesWanted(refSeqMapped)
          /\ Len(states[0]) = ModulesWanted(refSeqMapped)
          /\ LastModule(refSeqMapped) < Len(states[0])
                 \/ (Len(states[0]) = 0 /\ LastModule(refSeqMapped) = 0)
          /\ \A k \in 1..Len(calls) :
                 calls[k].op = "add_transition" =>
                     FromCreatedModule(calls[k].from) /\ FromCreatedModule(calls[k].to)

(* ------------------------------- pooling -------------------------------- *)
RECURSIVE EventsAt(_, _, _, _)
\* the events whose emitting state (k-th event, k-th emitting state) lies at
\* position p, in order
EventsAt(emitting, events, p, k) ==
    IF k > Len(events) THEN <<>>
    ELSE (IF emitting[k].meta = p THEN <<events[k]>> ELSE <<>>)
             \o EventsAt(emitting, events, p, k + 1)

\* the pool once the events of the aligned read are added under the
\* positions in keep
PoolPlus(pool, path, events, keep) ==
    LET emitting == SelectSeq(path, Emitting)
        hit == {p \in keep : EventsAt(emitting, events, p, 1) # <<>>}
    IN  [p \in DOMAIN pool \cup hit |->
            (IF p \in DOMAIN pool THEN pool[p] ELSE <<>>)
                \o (IF p \in hit THEN EventsAt(emitting, events, p, 1) ELSE <<>>)]

PathPositions == {statePath[k].meta : k \in 1..Len(statePath)}

\* p >= boundLower and p < boundUpper, compared as unsigned integers
InRange(p) ==
    /\ p >= trainArgs.boundLower % SizeMod
    /\ p < trainArgs.boundUpper % SizeMod

(* C6 as stated: pooling an aligned read appends its i-th event to the pool
   of the position of the i-th emitting state of the path, for every such
   position, and changes nothing else. *)
C6_EveryEventPooled ==
    [][ (pc = "pool" /\ pc' = "readLoop") =>
            eventPileup' = PoolPlus(eventPileup, statePath,
                                    eventData.normalisedEvents, PathPositions)
      ]_vars

(* C6 amended: pooling an aligned read appends its i-th event to the pool of
   the position of the i-th emitting state of the path if that position lies
   in [boundLower, boundUpper), the range given with -b, the bounds taken as
   unsigned integers (a negative lower bound excludes every position);
   events aligned to a position outside the range are dropped, and nothing
   else changes. *)
C6_EventsPooledWithinBounds ==
    [][ (pc = "pool" /\ pc' = "readLoop") =>
            eventPileup' =
                PoolPlus(eventPileup, statePath, eventData.normalisedEvents,
                         {p \in PathPositions : InRange(p)})
      ]_vars

\* the pool already holds events of an earlier read, and the read about to
\* be pooled has two events whose emitting states lie one inside and one
\* outside the range
C6_Witness ==
    /\ pc = "pool"
    /\ eventPileup # EmptyPool
    /\ Len(eventData.normalisedEvents) >= 2
    /\ LET emitting == SelectSeq(statePath, Emitting)
       IN  \E k, m \in 1..Len(emitting) :
               InRange(emitting[k].meta) /\ ~InRange(emitting[m].meta)

(* ------------------------------- fitting -------------------------------- *)
RowsOf(p) == {k \in 2..Len(outFile) : outFile[k].pos = p}

(* C2: a position whose fit throws NegativeLog gets no row, not even a
   partial one, and the loop goes on to the next position; every position
   whose fit succeeds gets exactly one row of 9 fields. *)
C2_RowsOfFittedPositions ==
    /\ \A k \in 1..Len(outFile) : Len(outFile[k].fields) = RowFields
    /\ \A k \in 2..Len(outFile) : outFile[k].pos \in DOMAIN fitted
    /\ \A p \in DOMAIN fitted :
          Cardinality(RowsOf(p)) = IF fitted[p] = "fit" THEN 1 ELSE 0
    /\ pc = "done" => DOMAIN fitted = DOMAIN eventPileup

\* training finished with a failed fit followed by a successful one
C2_Witness ==
    /\ pc = "done"
    /\ \E p, r \in DOMAIN fitted :
          p < r /\ fitted[p] = "NegativeLog" /\ fitted[r] = "fit"

(* ----------------------- lnGreaterThan on its own ----------------------- *)
\* three operands are drawn and compared pairwise
InitLn ==
    /\ TrainInit
    /\ trainArgs.boundLower = 0
    /\ lnArgs \in LnVals \X LnVals \X LnVals
    /\ lnOut = <<>>

Compare ==
    /\ lnOut = <<>>
    /\ lnOut' = <<[xy |-> lnGreaterThan(lnArgs[1], lnArgs[2]),
                   yx |-> lnGreaterThan(lnArgs[2], lnArgs[1]),
                   yz |-> lnGreaterThan(lnArgs[2], lnArgs[3]),
                   xz |-> lnGreaterThan(lnArgs[1], lnArgs[3]),
                   xx |-> lnGreaterThan(lnArgs[1], lnArgs[1])]>>
    /\ UNCHANGED <<lnArgs, trainVars>>

NextLn == Compare

SpecLn == InitLn /\ [][NextLn]_vars

(* C7: lnGreaterThan(a, b) is true exactly when a is not the sentinel and b
   is, or neither is and a > b; it is irreflexive, asymmetric and
   transitive, the sentinel being below every other value. *)
C7_StrictOrderWithSentinelMinimum ==
    lnOut # <<>> =>
        LET x == lnArgs[1]
            y == lnArgs[2]
            r == lnOut[1]
        IN  /\ r.xy = IF x.nan THEN FALSE
                      ELSE IF y.nan THEN TRUE
                      ELSE x.v > y.v
            /\ ~r.xx
            /\ ~(r.xy /\ r.yx)
            /\ (r.xy /\ r.yz) => r.xz

\* a chain through the sentinel was compared: x above y above the sentinel
C7_Witness ==
    /\ lnOut # <<>>
    /\ lnArgs[3].nan
    /\ ~lnArgs[1].nan
    /\ lnOut[1].xy
    /\ lnOut[1].yz
    /\ lnOut[1].xz

====
